---- MODULE Spec2Model ----
(***************************************************************************)
(* MS2 Accounts service: the internal transfer endpoint                    *)
(* (routers/internal.py, transfer_funds) over the accounts and             *)
(* ledger_entries tables (models.py), run by concurrent request handlers   *)
(* against one PostgreSQL database (READ COMMITTED, row locks taken by     *)
(* SELECT ... FOR UPDATE and released at commit, rollback or close).       *)
(*                                                                         *)
(* Money.  A NUMERIC(18,2) column holds whole cents; the model counts      *)
(* stored balances and stored ledger amounts in cents.  A request amount   *)
(* is a Python float and is counted in half-cents (h half-cents = h/200),  *)
(* so that amounts below the column scale exist; the handler computes in   *)
(* floats (half-cents here) and the store rounds to the column scale when  *)
(* a row is written (Numeric).                                             *)
(*                                                                         *)
(* Identifiers.  Account ids arrive as strings (schemas.ObjectIdStr) and   *)
(* are stored as uuid values (PG_UUID(as_uuid=True)).  A string is a       *)
(* sequence of character codes, a uuid a sequence of hex digit values.     *)
(***************************************************************************)
EXTENDS Integers, Sequences, FiniteSets, TLC

\* ------------------------------------------------------------- bounds
\* Number of transfer attempts (request handlers) of one behaviour.
NumProcs == 2
\* Balance, in cents, of each seeded account when the service starts.
StartBalance == 2
\* Number of status updates of one behaviour.
MaxStatusUpdates == 2
\* Number of accounts created through POST /accounts in one behaviour.
MaxCreates == 1

Procs == 1..NumProcs

\* "No value" of each kind the handler deals with (Python's None).
NoRow == <<>>
NoEntry == 0
NoTx == ""
NoTime == 0

\* ------------------------------------------------------- identifiers
\* The id strings of the callers: one-character strings over the
\* characters the id pattern admits ("a", "b", "c", "B" and "C").
Chr_a == <<97>>
Chr_b == <<98>>
Chr_c == <<99>>
Chr_B == <<66>>
Chr_C == <<67>>

\* Value of one hex digit character, either case.
HexValue(c) == IF c >= 97 THEN c - 87 ELSE IF c >= 65 THEN c - 55 ELSE c - 48

\* Character of one hex digit value in the canonical (lower case) form.
LowerHex(d) == IF d >= 10 THEN d + 87 ELSE d + 48

\* The store's reading of an id string as a uuid value: case-insensitive.
uuid_in(s) == [i \in 1..Len(s) |-> HexValue(s[i])]

\* str(uuid.UUID): the canonical lower-case string of a uuid value.
uuid_str(u) == [i \in 1..Len(u) |-> LowerHex(u[i])]

\* Python's str < str: lexicographic on character codes.
StrLess(s, t) ==
  \E k \in 0..Len(s) :
    /\ k <= Len(t)
    /\ \A j \in 1..k : s[j] = t[j]
    /\ \/ k = Len(s) /\ k < Len(t)
       \/ k < Len(s) /\ k < Len(t) /\ s[k + 1] < t[k + 1]

\* sorted([fromAccount, toAccount], key=lambda x: str(x)): the payload
\* fields are already strings, so the key is the caller's spelling; the
\* sort is stable.
ids_sorted(r) ==
  IF StrLess(r.toAccount, r.fromAccount)
    THEN <<r.toAccount, r.fromAccount>>
    ELSE <<r.fromAccount, r.toAccount>>

\* acc_a.id == payload.fromAccount: acc_a.id is a uuid.UUID (models.py,
\* as_uuid=True) and payload.fromAccount a str (schemas.ObjectIdStr).
\* uuid.UUID.__eq__ answers NotImplemented for an operand that is not a
\* UUID, and so does str.__eq__ for a UUID: Python then compares
\* identities, and the comparison is False for every pair of values.
UuidEqStr(u, s) == FALSE

\* ------------------------------------------------------------ tables
\* The rows the accounts table holds when the service starts (their
\* primary keys): accounts a and b.
InitialRows == {uuid_in(Chr_a), uuid_in(Chr_b)}

\* The primary keys uuid4 gives to the accounts created later.
NewRows == {uuid_in(Chr_c)}

Currencies == {"PEN", "USD"}
Statuses == {"ACTIVE", "BLOCKED", "CLOSED"}

\* The store's rounding of a value to the scale of a NUMERIC(18,2) column:
\* x half-cents to whole cents, halves away from zero.
Numeric(x) == IF x >= 0 THEN (x + 1) \div 2 ELSE 0 - ((1 - x) \div 2)

\* float(column value): cents read back as a float, in half-cents.
Float(cents) == 2 * cents

VARIABLES
  accounts,   \* committed accounts rows: uuid -> [balance, status, currency]
  ledger,     \* committed ledger_entries rows
  lockedBy,   \* row lock of each accounts row: the attempts holding it
  env,        \* process environment (os.getenv)
  pc,         \* position of each transfer attempt
  req,        \* payload and x-service-key of each attempt
  loc,        \* the handler's local variables of each attempt
  outcome,    \* what the attempt answers to its caller
  tasks,      \* notification tasks created and not yet run
  posts,      \* notifications posted to the consumer, with their result
  applied,    \* history: attempts that committed a balance mutation
  nStatus,    \* history: number of status updates so far
  sequential, \* history: the attempt arrived after every earlier attempt
              \* with its requestId had answered an error
  produced    \* history: the balances the attempt's own commit wrote to
              \* from_acc and to_acc

vars == <<accounts, ledger, lockedBy, env, pc, req, loc, outcome, tasks,
          posts, applied, nStatus, sequential, produced>>

\* The rows of the accounts table (their primary keys).
AccountRows == DOMAIN accounts

ServiceKey == "test-ms3-key"

\* os.environ of the service process.
Environment(key, notify, url) ==
  [SERVICE_KEY_FOR_MS3 |-> key, MS3_NOTIFY_ENABLED |-> notify,
   MS3_NOTIFY_URL |-> url]

NoLocals == [acc_a |-> NoRow, acc_b |-> NoRow, from_acc |-> NoRow,
             to_acc |-> NoRow, debit |-> NoEntry, credit |-> NoEntry,
             from_balance |-> 0, status_a |-> "", status_b |-> ""]

NoOutcome == [code |-> 0, detail |-> "", debitEntryId |-> NoEntry,
              creditEntryId |-> NoEntry, from |-> 0, to |-> 0]

\* raise HTTPException(status_code, detail)
HTTPException(code, detail) ==
  [code |-> code, detail |-> detail, debitEntryId |-> NoEntry,
   creditEntryId |-> NoEntry, from |-> 0, to |-> 0]

\* schemas.TransferResponse(status="OK", ...), answered with HTTP 200
TransferResponse(debit, credit, from, to, message) ==
  [code |-> 200, detail |-> message, debitEntryId |-> debit,
   creditEntryId |-> credit, from |-> from, to |-> to]

\* A payload with its x-service-key header.
Request(rid, from, to, amount, currency, key) ==
  [requestId |-> rid, fromAccount |-> from, toAccount |-> to,
   amount |-> amount, currency |-> currency, serviceKey |-> key]

NoRequest == Request(NoTx, <<>>, <<>>, 0, "", "")

\* The customer the identity service (MS1) knows, and one it does not.
KnownCustomer == "64b7f0c2a1d3e4f5a6b7c8d9"
UnknownCustomer == "000000000000000000000000"

\* MS1Client.customer_exists: GET /customers/{id} of the identity service
\* answers 200 for the customer it knows and 404 otherwise.
customer_exists(customer_id) == customer_id = KnownCustomer

NoBalances == [from |-> 0, to |-> 0]

\* The state of the store and of the handlers when the service starts:
\* two seeded ACTIVE accounts, an empty ledger, no request in flight.
InitWith(e, curB) ==
  /\ accounts = [u \in InitialRows |->
                   [balance |-> StartBalance, status |-> "ACTIVE",
                    currency |-> IF u = uuid_in(Chr_b) THEN curB ELSE "PEN",
                    closed_at |-> NoTime, customer_id |-> KnownCustomer,
                    type |-> "SAVINGS", opened_at |-> 1]]
  /\ ledger = {}
  /\ lockedBy = [u \in InitialRows |-> {}]
  /\ env = e
  /\ pc = [p \in Procs |-> "idle"]
  /\ req = [p \in Procs |-> NoRequest]
  /\ loc = [p \in Procs |-> NoLocals]
  /\ outcome = [p \in Procs |-> NoOutcome]
  /\ tasks = {}
  /\ posts = {}
  /\ applied = {}
  /\ nStatus = 0
  /\ sequential = [p \in Procs |-> TRUE]
  /\ produced = [p \in Procs |-> NoBalances]

\* ----------------------------------------------------------- queries
\* db.query(LedgerEntry).filter(tx_id == requestId [, direction == d])
EntriesOf(rid) == {e \in ledger : e.tx_id = rid}
EntriesOfDir(rid, d) == {e \in ledger : e.tx_id = rid /\ e.direction = d}

\* .first() always answering None.
FirstId_none(rows) == {NoEntry}

\* .first() of a query without ORDER BY, as the id of the row it returns:
\* any of the matching rows, or None.
FirstId(rows) == IF rows = {} THEN {NoEntry} ELSE {e.id : e \in rows}

\* db.query(Account).filter(Account.id == <id string>).first()
AccountOf(s) == IF uuid_in(s) \in AccountRows THEN uuid_in(s) ELSE NoRow

\* The balance lookup answering 0.0 for every account.
BalanceOrZero_none(u) == 0

\* float(acc.balance) if acc else 0.0
BalanceOrZero(u) == IF u = NoRow THEN 0 ELSE Float(accounts[u].balance)

\* The key check without the test for an empty header.
require_service_key_equal_only(key) == key = env.SERVICE_KEY_FOR_MS3

\* _require_service_key: the header must be non-empty and equal to the
\* configured key.
require_service_key(key) == key # "" /\ key = env.SERVICE_KEY_FOR_MS3

\* A commit, rollback or close that leaves the row locks in place.
Release_nothing(p) == lockedBy

\* The row locks attempt p holds are released (commit, rollback or close
\* of its session).
Release(p) == [u \in AccountRows |-> lockedBy[u] \ {p}]

\* ------------------------------------------------- the transfer handler
\* Where the handler stands once it has its answer: get_db's close is a step
\* of its own ("closing") only while the session still holds row locks;
\* a session that holds none ends with the handler ("done").
AfterAnswer(p, locks) ==
  IF \E u \in AccountRows : p \in locks[u] THEN "closing" ELSE "done"

\* Whether request r, arriving as attempt p, is issued when every other
\* attempt that carried its requestId has answered with an error.
IsRetryAfterError(p, r) ==
  \A q \in Procs \ {p} :
    (pc[q] # "idle" /\ req[q].requestId = r.requestId)
      => (pc[q] \in {"closing", "done"} /\ outcome[q].code >= 400)

\* The amount check with 0 let through.
amount_negative_only(r) == r.amount < 0

\* if payload.amount <= 0
amount_not_positive(r) == r.amount <= 0

\* The idempotency lookup never finding an entry.
existing_never(rid) == FALSE

\* existing: the first ledger entry with tx_id = requestId, if any.
existing(rid) == EntriesOf(rid) # {}

\* The handler up to its first query: service key, amount, and the lookup
\* of an entry with tx_id = requestId.
Receive(p, r) ==
  /\ pc[p] = "idle"
  /\ \A q \in Procs : q < p => pc[q] # "idle"
  /\ req' = [req EXCEPT ![p] = r]
  /\ sequential' = [sequential EXCEPT ![p] = IsRetryAfterError(p, r)]
  /\ IF ~require_service_key(r.serviceKey)
       THEN /\ outcome' = [outcome EXCEPT ![p] = HTTPException(403, "Unauthorized service")]
            /\ pc' = [pc EXCEPT ![p] = AfterAnswer(p, lockedBy)]
       ELSE IF amount_not_positive(r)
         THEN /\ outcome' = [outcome EXCEPT ![p] = HTTPException(422, "Amount must be > 0")]
              /\ pc' = [pc EXCEPT ![p] = AfterAnswer(p, lockedBy)]
         ELSE /\ outcome' = outcome
              /\ pc' = [pc EXCEPT ![p] =
                          IF existing(r.requestId) THEN "replay" ELSE "lock_a"]
  /\ UNCHANGED <<accounts, ledger, lockedBy, env, loc, tasks, posts, applied, nStatus,
                 produced>>

\* Idempotent replay, first reads: the DEBIT entry, the CREDIT entry and
\* the account named fromAccount.
ReplayRead(p) ==
  /\ pc[p] = "replay"
  /\ \E d \in FirstId(EntriesOfDir(req[p].requestId, "DEBIT")),
        c \in FirstId(EntriesOfDir(req[p].requestId, "CREDIT")) :
       loc' = [loc EXCEPT ![p].debit = d, ![p].credit = c,
                 ![p].from_balance = BalanceOrZero(AccountOf(req[p].fromAccount))]
  /\ pc' = [pc EXCEPT ![p] = "replay_to"]
  /\ UNCHANGED <<accounts, ledger, lockedBy, env, req, outcome, tasks, posts, applied, nStatus, sequential, produced>>

\* Idempotent replay, last read (the account named toAccount) and answer.
ReplayRespond(p) ==
  /\ pc[p] = "replay_to"
  /\ outcome' = [outcome EXCEPT ![p] =
       TransferResponse(loc[p].debit, loc[p].credit, loc[p].from_balance,
                        BalanceOrZero(AccountOf(req[p].toAccount)),
                        "Idempotent replay")]
  /\ loc' = [loc EXCEPT ![p] = NoLocals]
  /\ pc' = [pc EXCEPT ![p] = AfterAnswer(p, lockedBy)]
  /\ UNCHANGED <<accounts, ledger, lockedBy, env, req, tasks, posts, applied, nStatus, sequential, produced>>

\* A locking read that never waits for the holder of the row's lock.
CanLock_always(p, s) == TRUE

\* SELECT ... FOR UPDATE of the row named s: the handler waits while
\* another attempt holds the row's lock; a missing row is None, unlocked.
CanLock(p, s) ==
  IF AccountOf(s) = NoRow THEN TRUE ELSE lockedBy[AccountOf(s)] \subseteq {p}
LockRow(p, s) ==
  IF AccountOf(s) = NoRow THEN lockedBy
  ELSE [lockedBy EXCEPT ![AccountOf(s)] = {p}]

\* The status attribute of the object the locking SELECT returns.
StatusRead(s) == IF AccountOf(s) = NoRow THEN "" ELSE accounts[AccountOf(s)].status

\* acc_a = query(ids_sorted[0]).with_for_update().first()
LockFirst(p) ==
  /\ pc[p] = "lock_a"
  /\ CanLock(p, ids_sorted(req[p])[1])
  /\ lockedBy' = LockRow(p, ids_sorted(req[p])[1])
  /\ loc' = [loc EXCEPT ![p].acc_a = AccountOf(ids_sorted(req[p])[1]),
                        ![p].status_a = StatusRead(ids_sorted(req[p])[1])]
  /\ pc' = [pc EXCEPT ![p] = "lock_b"]
  /\ UNCHANGED <<accounts, ledger, env, req, outcome, tasks, posts, applied, nStatus, sequential, produced>>

\* acc_b = query(ids_sorted[1]).with_for_update().first()
LockSecond(p) ==
  /\ pc[p] = "lock_b"
  /\ CanLock(p, ids_sorted(req[p])[2])
  /\ lockedBy' = LockRow(p, ids_sorted(req[p])[2])
  /\ loc' = [loc EXCEPT ![p].acc_b = AccountOf(ids_sorted(req[p])[2]),
                        ![p].status_b = StatusRead(ids_sorted(req[p])[2])]
  /\ pc' = [pc EXCEPT ![p] = "locked"]
  /\ UNCHANGED <<accounts, ledger, env, req, outcome, tasks, posts, applied, nStatus, sequential, produced>>

\* A statement of the transaction (a locking SELECT, the flush, the
\* commit) raises SQLAlchemyError: lock wait timeout, deadlock detected,
\* connection lost.  The handler rolls back and answers 500.
StorageFailure(p) ==
  /\ pc[p] \in {"lock_a", "lock_b", "locked"}
  /\ lockedBy' = Release(p)
  /\ outcome' = [outcome EXCEPT ![p] = HTTPException(500, "Database error")]
  /\ loc' = [loc EXCEPT ![p] = NoLocals]
  /\ pc' = [pc EXCEPT ![p] = AfterAnswer(p, Release(p))]
  /\ UNCHANGED <<accounts, ledger, env, req, tasks, posts, applied, nStatus, sequential, produced>>

\* The not-found answer given the status of a validation error.
unprocessable_status == 422

\* The insufficient-funds answer given the status of a storage failure.
internal_error_status == 500

\* raise HTTPException(status_code=400, detail="Insufficient funds")
insufficient_funds_status == 400

\* if not acc_a or not acc_b: raise HTTPException(status_code=404, ...)
not_found_status == 404
account_missing(a, b) == a = NoRow \/ b = NoRow

\* from_acc, to_acc of the handler (lines 127-130).
from_acc_of(r, a, b) == IF UuidEqStr(a, r.fromAccount) THEN a ELSE b
to_acc_of(r, a, b) == IF UuidEqStr(a, r.fromAccount) THEN b ELSE a

\* The committed status of row u is ACTIVE.
account_is_active(u) == accounts[u].status = "ACTIVE"

\* _validate_account_for_transfer(account, role): account.status is the
\* attribute of the object loaded by the locking SELECT (acc_b, or acc_a).
validate_account_for_transfer(p, u) ==
  (IF u = loc[p].acc_b THEN loc[p].status_b ELSE loc[p].status_a) = "ACTIVE"

\* The currency check with the destination's currency left out.
currency_matches_request_only(r, f, t) == accounts[f].currency = r.currency

\* The currency check of the handler.
currency_matches(r, f, t) ==
  accounts[f].currency = accounts[t].currency /\ accounts[f].currency = r.currency

\* The funds check left out.
sufficient_funds_unchecked(r, f) == TRUE

\* The funds check of the handler: float(balance) >= float(amount).
sufficient_funds(r, f) == ~(Float(accounts[f].balance) < r.amount)

\* The balances the handler assigns: from_acc first, then to_acc, which
\* reads the value just assigned when both are the same row object.
new_from_balance(r, f) == Float(accounts[f].balance) - r.amount
new_to_balance(r, f, t) ==
  (IF t = f THEN new_from_balance(r, f) ELSE Float(accounts[t].balance)) + r.amount

\* The flush crediting every row but the debited one.
accounts_after_crediting_all(r, f, t) ==
  [u \in AccountRows |->
     IF u = f /\ u # t THEN [accounts[u] EXCEPT !.balance = Numeric(new_from_balance(r, f))]
     ELSE [accounts[u] EXCEPT !.balance = Numeric(new_to_balance(r, f, u))]]

\* The accounts rows after the flush: the store rounds what it is given.
accounts_after(r, f, t) ==
  [u \in AccountRows |->
     IF u = t THEN [accounts[u] EXCEPT !.balance = Numeric(new_to_balance(r, f, t))]
     ELSE IF u = f THEN [accounts[u] EXCEPT !.balance = Numeric(new_from_balance(r, f))]
     ELSE accounts[u]]

\* A new ledger_entries row written without its tx_id (the column is
\* nullable).
LedgerEntry_without_tx(id, account_id, tx_id, direction, amount) ==
  [id |-> id, account_id |-> account_id, tx_id |-> NoTx,
   direction |-> direction, amount |-> Numeric(amount)]

\* A new ledger_entries row; its id is a fresh uuid4.
LedgerEntry(id, account_id, tx_id, direction, amount) ==
  [id |-> id, account_id |-> account_id, tx_id |-> tx_id,
   direction |-> direction, amount |-> Numeric(amount)]

\* CheckConstraint("balance >= 0") and CheckConstraint("amount > 0")
check_balance_non_negative(rows) == \A u \in AccountRows : rows[u].balance >= 0
check_amount_positive(entries) == \A e \in entries : e.amount > 0

\* The business validations, the two entries, the balances and the commit,
\* all while both locks are held.
ValidateAndApply(p) ==
  /\ pc[p] = "locked"
  /\ LET r == req[p]
         a == loc[p].acc_a
         b == loc[p].acc_b
         f == from_acc_of(r, a, b)
         t == to_acc_of(r, a, b)
         n == Cardinality(ledger)
         debit == LedgerEntry(n + 1, f, r.requestId, "DEBIT", r.amount)
         credit == LedgerEntry(n + 2, t, r.requestId, "CREDIT", r.amount)
         reject(code, detail) ==
           /\ outcome' = [outcome EXCEPT ![p] = HTTPException(code, detail)]
           /\ pc' = [pc EXCEPT ![p] = AfterAnswer(p, lockedBy)]
           /\ loc' = [loc EXCEPT ![p] = NoLocals]
           /\ UNCHANGED <<accounts, ledger, lockedBy, applied, produced>>
     IN IF account_missing(a, b) THEN reject(not_found_status, "Account not found")
        ELSE IF ~validate_account_for_transfer(p, f)
          THEN reject(422, "Origin account is not ACTIVE")
        ELSE IF ~validate_account_for_transfer(p, t)
          THEN reject(422, "Destination account is not ACTIVE")
        ELSE IF ~currency_matches(r, f, t) THEN reject(422, "Currency mismatch")
        ELSE IF ~sufficient_funds(r, f) THEN reject(insufficient_funds_status, "Insufficient funds")
        ELSE IF ~(check_balance_non_negative(accounts_after(r, f, t))
                  /\ check_amount_positive({debit, credit}))
          THEN \* IntegrityError at the flush: rollback, 500
               /\ outcome' = [outcome EXCEPT ![p] = HTTPException(500,
                    IF ~check_balance_non_negative(accounts_after(r, f, t))
                      THEN "Database error: check_balance_non_negative"
                      ELSE "Database error: check_amount_positive")]
               /\ pc' = [pc EXCEPT ![p] = AfterAnswer(p, Release(p))]
               /\ lockedBy' = Release(p)
               /\ loc' = [loc EXCEPT ![p] = NoLocals]
               /\ UNCHANGED <<accounts, ledger, applied, produced>>
          ELSE /\ accounts' = accounts_after(r, f, t)
               /\ ledger' = ledger \cup {debit, credit}
               /\ lockedBy' = Release(p)
               /\ loc' = [loc EXCEPT ![p].from_acc = f, ![p].to_acc = t,
                            ![p].debit = debit.id, ![p].credit = credit.id]
               /\ applied' = applied \cup {p}
               /\ produced' = [produced EXCEPT ![p] =
                    [from |-> Float(accounts_after(r, f, t)[f].balance),
                     to |-> Float(accounts_after(r, f, t)[t].balance)]]
               /\ outcome' = outcome
               /\ pc' = [pc EXCEPT ![p] = "committed"]
  /\ UNCHANGED <<env, req, tasks, posts, nStatus, sequential>>

\* A notification task: notify_balance_updated(str(acc.id), balance, currency)
NotifyTask(p, role, u) ==
  [of |-> p, role |-> role, accountId |-> uuid_str(u),
   balance |-> Float(accounts[u].balance), currency |-> accounts[u].currency]

\* After the commit: the four refreshes, the two notification tasks when
\* MS3_NOTIFY_ENABLED is "true", and the answer.  A refresh can raise
\* SQLAlchemyError; asyncio.create_task raises RuntimeError when the
\* thread running the handler has no running event loop.
AfterCommit(p) ==
  /\ pc[p] = "committed"
  /\ \E refreshed \in BOOLEAN, loop \in BOOLEAN :
       IF ~refreshed
         THEN /\ outcome' = [outcome EXCEPT ![p] = HTTPException(500, "Database error")]
              /\ tasks' = tasks
       ELSE IF env.MS3_NOTIFY_ENABLED /\ ~loop
         THEN /\ outcome' = [outcome EXCEPT ![p] =
                   HTTPException(500, "Unexpected error: no running event loop")]
              /\ tasks' = tasks
       ELSE /\ outcome' = [outcome EXCEPT ![p] =
                 TransferResponse(loc[p].debit, loc[p].credit,
                                  Float(accounts[loc[p].from_acc].balance),
                                  Float(accounts[loc[p].to_acc].balance),
                                  "Transfer applied")]
            /\ tasks' = IF env.MS3_NOTIFY_ENABLED
                          THEN tasks \cup {NotifyTask(p, "from", loc[p].from_acc),
                                           NotifyTask(p, "to", loc[p].to_acc)}
                          ELSE tasks
  /\ loc' = [loc EXCEPT ![p] = NoLocals]
  /\ pc' = [pc EXCEPT ![p] = AfterAnswer(p, lockedBy)]
  /\ UNCHANGED <<accounts, ledger, lockedBy, env, req, posts, applied, nStatus, sequential, produced>>

\* get_db's finally: db.close() ends the session's transaction and with it
\* every row lock the attempt still holds.
Close(p) ==
  /\ pc[p] = "closing"
  /\ lockedBy' = Release(p)
  /\ pc' = [pc EXCEPT ![p] = "done"]
  /\ UNCHANGED <<accounts, ledger, env, req, loc, outcome, tasks, posts, applied, nStatus, sequential, produced>>

\* ------------------------------------------------------ notifications
\* One run of notify_balance_updated: nothing when disabled or without a
\* URL; otherwise one POST whose failure is logged and swallowed.
PostResults == {"2xx", "http_error", "unreachable"}
Notify(t, result) ==
  /\ t \in tasks
  /\ tasks' = tasks \ {t}
  /\ posts' = IF ~env.MS3_NOTIFY_ENABLED \/ env.MS3_NOTIFY_URL = ""
                THEN posts
                ELSE posts \cup {[task |-> t, result |-> result]}
  /\ UNCHANGED <<accounts, ledger, lockedBy, env, pc, req, loc, outcome, applied, nStatus, sequential, produced>>

\* ------------------------------------------------------ status update
\* The status update writing a row without waiting for its lock.
UpdateStatus_unlocked(u, s) ==
  /\ nStatus < MaxStatusUpdates
  /\ u \in AccountRows
  /\ accounts' = [accounts EXCEPT ![u].status = s,
                    ![u].closed_at = IF s = "CLOSED" THEN nStatus + 1 ELSE @]
  /\ nStatus' = nStatus + 1
  /\ UNCHANGED <<ledger, lockedBy, env, pc, req, loc, outcome, tasks, posts, applied, sequential, produced>>

\* PUT /accounts/{id}/status: the handler assigns the new status whatever
\* the current one is, and assigns closed_at = utcnow() whenever the new
\* status is CLOSED; the UPDATE waits for the row's lock and commits at
\* once.  It writes no other column.  The clock reads the number of the
\* update.
UpdateStatus(u, s) ==
  /\ nStatus < MaxStatusUpdates
  /\ u \in AccountRows
  /\ lockedBy[u] = {}
  /\ accounts' = [accounts EXCEPT
                    ![u].status = s,
                    ![u].closed_at = IF s = "CLOSED" THEN nStatus + 1 ELSE @]
  /\ nStatus' = nStatus + 1
  /\ UNCHANGED <<ledger, lockedBy, env, pc, req, loc, outcome, tasks, posts, applied,
                 sequential, produced>>

\* ---------------------------------------------------- account creation
\* A new row that starts with the balance of the seeded accounts.
NewAccount_funded(customer_id, currency) ==
  [balance |-> StartBalance, status |-> "ACTIVE", currency |-> currency,
   closed_at |-> NoTime, customer_id |-> customer_id,
   type |-> "SAVINGS", opened_at |-> nStatus + 1]

\* models.Account(customer_id=..., status="ACTIVE", currency=..., balance=0)
NewAccount(customer_id, currency) ==
  [balance |-> 0, status |-> "ACTIVE", currency |-> currency,
   closed_at |-> NoTime, customer_id |-> customer_id,
   type |-> "SAVINGS", opened_at |-> nStatus + 1]

\* POST /accounts: a new ACTIVE row with balance 0 for the customer_id of
\* the payload, under a fresh uuid4.  The handler makes no call to the
\* identity service.
CreateAccount(u, customer_id, currency) ==
  /\ Cardinality(AccountRows \ InitialRows) < MaxCreates
  /\ u \in NewRows \ AccountRows
  /\ accounts' = accounts @@ (u :> NewAccount(customer_id, currency))
  /\ lockedBy' = lockedBy @@ (u :> {})
  /\ UNCHANGED <<ledger, env, pc, req, loc, outcome, tasks, posts, applied, nStatus,
                 sequential, produced>>

\* ----------------------------------------------------- specifications
RequestIds == {"r1", "r2"}

\* Requests of the main specification: canonical (lower case) ids of the
\* two accounts and of a missing one; amounts of half a cent and of the
\* whole start balance, and single requests with an amount of 0, a
\* negative amount, a self-transfer, a missing account and no service
\* key.
Amounts == {1, Float(StartBalance)}
Requests ==
  {Request(rid, ft[1], ft[2], h, "PEN", ServiceKey) :
     rid \in RequestIds, ft \in {<<Chr_a, Chr_b>>, <<Chr_b, Chr_a>>}, h \in Amounts}
  \cup {Request("r2", Chr_a, Chr_a, 1, "PEN", ServiceKey),
        Request("r1", Chr_a, Chr_b, 0, "PEN", ServiceKey),
        Request("r1", Chr_a, Chr_b, 0 - 2, "PEN", ServiceKey),
        Request("r1", Chr_a, Chr_c, 2, "PEN", ServiceKey),
        Request("r1", Chr_a, Chr_b, 2, "PEN", "")}

Init == InitWith(Environment(ServiceKey, FALSE, ""), "PEN")

Next ==
  \/ \E p \in Procs, r \in Requests : Receive(p, r)
  \/ \E p \in Procs : ReplayRead(p)
  \/ \E p \in Procs : ReplayRespond(p)
  \/ \E p \in Procs : LockFirst(p)
  \/ \E p \in Procs : LockSecond(p)
  \/ \E p \in Procs : StorageFailure(p)
  \/ \E p \in Procs : ValidateAndApply(p)
  \/ \E p \in Procs : AfterCommit(p)
  \/ \E p \in Procs : Close(p)

Spec == Init /\ [][Next]_vars

\* Callers that spell the id of account b in upper case as well: the id
\* pattern admits both cases and the store reads both as the same uuid.
RequestsCase ==
  {Request(rid, ft[1], ft[2], h, "PEN", ServiceKey) :
     rid \in RequestIds, ft \in {<<Chr_a, Chr_b>>, <<Chr_B, Chr_a>>}, h \in Amounts}

NextCase ==
  \/ \E p \in Procs, r \in RequestsCase : Receive(p, r)
  \/ \E p \in Procs : ReplayRead(p)
  \/ \E p \in Procs : ReplayRespond(p)
  \/ \E p \in Procs : LockFirst(p)
  \/ \E p \in Procs : LockSecond(p)
  \/ \E p \in Procs : StorageFailure(p)
  \/ \E p \in Procs : ValidateAndApply(p)
  \/ \E p \in Procs : AfterCommit(p)
  \/ \E p \in Procs : Close(p)

SpecCase == Init /\ [][NextCase]_vars

\* The service with MS3_NOTIFY_ENABLED=true, with and without a URL, and
\* the notification tasks it runs.
RequestsNotify ==
  {Request(rid, ft[1], ft[2], Float(StartBalance), "PEN", ServiceKey) :
     rid \in RequestIds, ft \in {<<Chr_a, Chr_b>>, <<Chr_b, Chr_a>>}}

InitNotify ==
  \E url \in {"", "http://ms3.test/api/v1/balance-updates"} :
    InitWith(Environment(ServiceKey, TRUE, url), "PEN")

NextNotify ==
  \/ \E p \in Procs, r \in RequestsNotify : Receive(p, r)
  \/ \E p \in Procs : ReplayRead(p)
  \/ \E p \in Procs : ReplayRespond(p)
  \/ \E p \in Procs : LockFirst(p)
  \/ \E p \in Procs : LockSecond(p)
  \/ \E p \in Procs : StorageFailure(p)
  \/ \E p \in Procs : ValidateAndApply(p)
  \/ \E p \in Procs : AfterCommit(p)
  \/ \E p \in Procs : Close(p)
  \/ \E t \in tasks, result \in PostResults : Notify(t, result)

SpecNotify == InitNotify /\ [][NextNotify]_vars

\* The business rules: account b in either currency, requests in either
\* currency between a, b and the missing account c.
RequestsRules ==
  {Request("r1", ft[1], ft[2], Float(StartBalance), cur, ServiceKey) :
     ft \in {<<Chr_a, Chr_b>>, <<Chr_b, Chr_a>>, <<Chr_a, Chr_c>>, <<Chr_c, Chr_a>>},
     cur \in Currencies}
  \cup {Request("r1", Chr_a, Chr_b, 1, "PEN", ServiceKey),
        Request("r1", Chr_b, Chr_a, 1, "USD", ServiceKey)}

InitRules ==
  \E curB \in Currencies : InitWith(Environment(ServiceKey, FALSE, ""), curB)

NextRules ==
  \/ \E p \in Procs, r \in RequestsRules : Receive(p, r)
  \/ \E p \in Procs : ReplayRead(p)
  \/ \E p \in Procs : ReplayRespond(p)
  \/ \E p \in Procs : LockFirst(p)
  \/ \E p \in Procs : LockSecond(p)
  \/ \E p \in Procs : StorageFailure(p)
  \/ \E p \in Procs : ValidateAndApply(p)
  \/ \E p \in Procs : AfterCommit(p)
  \/ \E p \in Procs : Close(p)

SpecRules == InitRules /\ [][NextRules]_vars

\* Transfers between a and b while the status of the accounts is updated.
RequestsStatus ==
  {Request(rid, ft[1], ft[2], Float(StartBalance), "PEN", ServiceKey) :
     rid \in RequestIds, ft \in {<<Chr_a, Chr_b>>, <<Chr_b, Chr_a>>}}

NextStatus ==
  \/ \E p \in Procs, r \in RequestsStatus : Receive(p, r)
  \/ \E p \in Procs : ReplayRead(p)
  \/ \E p \in Procs : ReplayRespond(p)
  \/ \E p \in Procs : LockFirst(p)
  \/ \E p \in Procs : LockSecond(p)
  \/ \E p \in Procs : StorageFailure(p)
  \/ \E p \in Procs : ValidateAndApply(p)
  \/ \E p \in Procs : AfterCommit(p)
  \/ \E p \in Procs : Close(p)
  \/ \E u \in AccountRows, st \in Statuses : UpdateStatus(u, st)

SpecStatus == Init /\ [][NextStatus]_vars

\* Reconciliation of a created account: account a was created through
\* POST /accounts (balance 0), account b holds the start balance; callers
\* spell b in either case, and amounts include half a cent.
CreatedRows == {uuid_in(Chr_a)}

RequestsLedger ==
  {Request(rid, Chr_b, Chr_a, Float(StartBalance), "PEN", ServiceKey) :
     rid \in RequestIds}
  \cup {Request(rid, Chr_a, Chr_B, h, "PEN", ServiceKey) :
          rid \in RequestIds, h \in {1, 2}}

InitLedger ==
  /\ accounts = [u \in InitialRows |->
                   [balance |-> IF u \in CreatedRows THEN 0 ELSE StartBalance,
                    status |-> "ACTIVE", currency |-> "PEN",
                    closed_at |-> NoTime, customer_id |-> KnownCustomer,
                    type |-> "SAVINGS", opened_at |-> 1]]
  /\ ledger = {}
  /\ lockedBy = [u \in InitialRows |-> {}]
  /\ env = Environment(ServiceKey, FALSE, "")
  /\ pc = [p \in Procs |-> "idle"]
  /\ req = [p \in Procs |-> NoRequest]
  /\ loc = [p \in Procs |-> NoLocals]
  /\ outcome = [p \in Procs |-> NoOutcome]
  /\ tasks = {}
  /\ posts = {}
  /\ applied = {}
  /\ nStatus = 0
  /\ sequential = [p \in Procs |-> TRUE]
  /\ produced = [p \in Procs |-> NoBalances]

NextLedger ==
  \/ \E p \in Procs, r \in RequestsLedger : Receive(p, r)
  \/ \E p \in Procs : ReplayRead(p)
  \/ \E p \in Procs : ReplayRespond(p)
  \/ \E p \in Procs : LockFirst(p)
  \/ \E p \in Procs : LockSecond(p)
  \/ \E p \in Procs : StorageFailure(p)
  \/ \E p \in Procs : ValidateAndApply(p)
  \/ \E p \in Procs : AfterCommit(p)
  \/ \E p \in Procs : Close(p)

SpecLedger == InitLedger /\ [][NextLedger]_vars

\* The account operations next to the transfer: transfers from b to the
\* account that POST /accounts creates (and one with amount 0), updates
\* of every row that close and reopen it, and creations in either currency for a customer
\* the identity service knows and for one it does not.
RequestsAccounts ==
  {Request("r1", Chr_b, Chr_C, Float(StartBalance), "PEN", ServiceKey),
   Request("r1", Chr_b, Chr_C, 0, "PEN", ServiceKey)}

NextAccounts ==
  \/ \E p \in Procs, r \in RequestsAccounts : Receive(p, r)
  \/ \E p \in Procs : ReplayRead(p)
  \/ \E p \in Procs : ReplayRespond(p)
  \/ \E p \in Procs : LockFirst(p)
  \/ \E p \in Procs : LockSecond(p)
  \/ \E p \in Procs : StorageFailure(p)
  \/ \E p \in Procs : ValidateAndApply(p)
  \/ \E p \in Procs : AfterCommit(p)
  \/ \E p \in Procs : Close(p)
  \/ \E u \in InitialRows \cup NewRows, st \in {"ACTIVE", "CLOSED"} : UpdateStatus(u, st)
  \/ \E u \in NewRows, c \in {KnownCustomer, UnknownCustomer}, cur \in Currencies :
       CreateAccount(u, c, cur)

SpecAccounts == Init /\ [][NextAccounts]_vars

\* The service key: a service with and without a configured key, callers
\* with no key, another key and the configured one.
RequestsAuth ==
  {Request(rid, ft[1], ft[2], Float(StartBalance), "PEN", key) :
     rid \in RequestIds, ft \in {<<Chr_a, Chr_b>>, <<Chr_b, Chr_a>>},
     key \in {"", "another-key", ServiceKey}}

InitAuth ==
  \E key \in {"", ServiceKey} : InitWith(Environment(key, FALSE, ""), "PEN")

NextAuth ==
  \/ \E p \in Procs, r \in RequestsAuth : Receive(p, r)
  \/ \E p \in Procs : ReplayRead(p)
  \/ \E p \in Procs : ReplayRespond(p)
  \/ \E p \in Procs : LockFirst(p)
  \/ \E p \in Procs : LockSecond(p)
  \/ \E p \in Procs : StorageFailure(p)
  \/ \E p \in Procs : ValidateAndApply(p)
  \/ \E p \in Procs : AfterCommit(p)
  \/ \E p \in Procs : Close(p)

SpecAuth == InitAuth /\ [][NextAuth]_vars

\* ------------------------------------------ cruds.apply_transfer_atomic
\* _lock_accounts_for_update(db, a_id, b_id): both arguments are UUIDs, so
\* acc_a.id == a_id compares like with like and the pair is returned as
\* (row of a_id, row of b_id).
lock_accounts_for_update(a_id, b_id) ==
  [from_acc |-> IF a_id \in AccountRows THEN a_id ELSE NoRow,
   to_acc |-> IF b_id \in AccountRows THEN b_id ELSE NoRow]

\* What one call of apply_transfer_atomic makes of the stored state: the
\* message of the TransferError it raises, "Idempotent replay" when it
\* returns the existing entries, "Transfer applied" when it commits, and
\* the accounts and ledger it leaves.
apply_transfer_atomic(r) ==
  LET rows == lock_accounts_for_update(uuid_in(r.fromAccount), uuid_in(r.toAccount))
      f == rows.from_acc
      t == rows.to_acc
      n == Cardinality(ledger)
      debit == LedgerEntry(n + 1, f, r.requestId, "DEBIT", r.amount)
      credit == LedgerEntry(n + 2, t, r.requestId, "CREDIT", r.amount)
      raise(message) == [class |-> message, accounts |-> accounts, ledger |-> ledger]
  IN IF r.amount <= 0 THEN raise("Amount must be > 0")
     ELSE IF EntriesOfDir(r.requestId, "DEBIT") # {}
             /\ EntriesOfDir(r.requestId, "CREDIT") # {}
       THEN raise("Idempotent replay")
     ELSE IF f = NoRow \/ t = NoRow THEN raise("Account not found")
     ELSE IF accounts[f].status # "ACTIVE" THEN raise("Origin account is not ACTIVE")
     ELSE IF accounts[t].status # "ACTIVE" THEN raise("Destination account is not ACTIVE")
     ELSE IF accounts[f].currency # accounts[t].currency
             \/ accounts[f].currency # r.currency
       THEN raise("Currency mismatch")
     ELSE IF Float(accounts[f].balance) < r.amount THEN raise("Insufficient funds")
     ELSE IF ~(check_balance_non_negative(accounts_after(r, f, t))
               /\ check_amount_positive({debit, credit}))
       THEN raise("Database error")
     ELSE [class |-> "Transfer applied",
           accounts |-> accounts_after(r, f, t),
           ledger |-> ledger \cup {debit, credit}]

\* One request at a time: a request is sent when no attempt is under way,
\* so that each run of the handler starts from a stored state and ends in
\* one with no other writer in between.
ReceiveAlone(p, r) ==
  /\ \A q \in Procs : pc[q] \in {"idle", "done"}
  /\ Receive(p, r)

NextOneByOne ==
  \/ \E p \in Procs, r \in Requests : ReceiveAlone(p, r)
  \/ \E p \in Procs : ReplayRead(p)
  \/ \E p \in Procs : ReplayRespond(p)
  \/ \E p \in Procs : LockFirst(p)
  \/ \E p \in Procs : LockSecond(p)
  \/ \E p \in Procs : StorageFailure(p)
  \/ \E p \in Procs : ValidateAndApply(p)
  \/ \E p \in Procs : AfterCommit(p)
  \/ \E p \in Procs : Close(p)

SpecOneByOne == Init /\ [][NextOneByOne]_vars

\* Progress: two accounts named in either spelling, so that two attempts
\* can wait for each other, a missing account, and a second transfer that
\* the funds check refuses.  A handler that can take its next step takes
\* it, a locking SELECT whose row is free is granted, and the store ends a
\* lock cycle by failing the statement of one of the waiting attempts
\* (deadlock detected).
RequestsLive ==
  {Request("r1", Chr_a, Chr_b, Float(StartBalance), "PEN", ServiceKey),
   Request("r2", Chr_a, Chr_b, Float(StartBalance), "PEN", ServiceKey),
   Request("r2", Chr_B, Chr_a, Float(StartBalance), "PEN", ServiceKey),
   Request("r2", Chr_a, Chr_c, 1, "PEN", ServiceKey)}

\* The row attempt p requests, while another attempt holds it and requests
\* a row that p holds.
InLockCycle(p) ==
  /\ pc[p] \in {"lock_a", "lock_b"}
  /\ \E q \in Procs \ {p} :
       /\ pc[q] \in {"lock_a", "lock_b"}
       /\ AccountOf(ids_sorted(req[p])[IF pc[p] = "lock_a" THEN 1 ELSE 2])
            \in {u \in AccountRows : q \in lockedBy[u]}
       /\ AccountOf(ids_sorted(req[q])[IF pc[q] = "lock_a" THEN 1 ELSE 2])
            \in {u \in AccountRows : p \in lockedBy[u]}

\* The store's deadlock detector fails the waiting statement of p.
DeadlockDetected(p) == InLockCycle(p) /\ StorageFailure(p)

NextLive ==
  \/ \E p \in Procs, r \in RequestsLive : Receive(p, r)
  \/ \E p \in Procs : ReplayRead(p)
  \/ \E p \in Procs : ReplayRespond(p)
  \/ \E p \in Procs : LockFirst(p)
  \/ \E p \in Procs : LockSecond(p)
  \/ \E p \in Procs : StorageFailure(p)
  \/ \E p \in Procs : ValidateAndApply(p)
  \/ \E p \in Procs : AfterCommit(p)
  \/ \E p \in Procs : Close(p)

FairLive ==
  \A p \in Procs :
    /\ WF_vars(ReplayRead(p))
    /\ WF_vars(ReplayRespond(p))
    /\ WF_vars(LockFirst(p))
    /\ WF_vars(LockSecond(p))
    /\ WF_vars(DeadlockDetected(p))
    /\ WF_vars(ValidateAndApply(p))
    /\ WF_vars(AfterCommit(p))
    /\ WF_vars(Close(p))

SpecLive == Init /\ [][NextLive]_vars /\ FairLive

\* ------------------------------------------------------------- claims
\* The accounts a request names as its source and as its destination.
SourceOf(r) == AccountOf(r.fromAccount)
DestinationOf(r) == AccountOf(r.toAccount)

\* The row whose lock attempt p is requesting, and the rows it holds.
WaitsFor(p) ==
  IF pc[p] = "lock_a" THEN AccountOf(ids_sorted(req[p])[1])
  ELSE IF pc[p] = "lock_b" THEN AccountOf(ids_sorted(req[p])[2])
  ELSE NoRow
Holds(p) == {u \in AccountRows : p \in lockedBy[u]}

\* C1: in every reachable state every committed balance is >= 0, and a
\* debit that would make the balance negative is refused by the handler's
\* funds check: it never gets as far as the store's balance constraint.
C1_BalanceNeverNegative ==
  /\ \A u \in AccountRows : accounts[u].balance >= 0
  /\ \A p \in Procs :
       outcome[p].detail # "Database error: check_balance_non_negative"

\* C1's case: one transfer has drained an account to 0 and another one has
\* been refused for insufficient funds.
C1_Witness ==
  \E p, q \in Procs :
    /\ p # q
    /\ p \in applied
    /\ outcome[q].detail = "Insufficient funds"
    /\ \E u \in AccountRows : accounts[u].balance = 0

\* C2: of the attempts that carry one requestId at most one commits the
\* balance mutation, and at most one DEBIT and one CREDIT entry exist for
\* that requestId.
C2_OneCommitPerRequestId ==
  /\ \A p, q \in applied : req[p].requestId = req[q].requestId => p = q
  /\ \A rid \in RequestIds :
       /\ Cardinality(EntriesOfDir(rid, "DEBIT")) <= 1
       /\ Cardinality(EntriesOfDir(rid, "CREDIT")) <= 1

\* C3: the step in which a transfer commits takes amount from the balance
\* of the account named fromAccount, adds amount to the balance of the
\* account named toAccount, and leaves exactly one DEBIT and one CREDIT
\* entry with txId = requestId.
C3_CommitMovesAmount ==
  [][\A p \in Procs :
       (p \notin applied /\ p \in applied') =>
         /\ Float(accounts'[SourceOf(req[p])].balance)
              = Float(accounts[SourceOf(req[p])].balance) - req[p].amount
         /\ Float(accounts'[DestinationOf(req[p])].balance)
              = Float(accounts[DestinationOf(req[p])].balance) + req[p].amount
         /\ Cardinality({e \in ledger' : e.tx_id = req[p].requestId
                                          /\ e.direction = "DEBIT"}) = 1
         /\ Cardinality({e \in ledger' : e.tx_id = req[p].requestId
                                          /\ e.direction = "CREDIT"}) = 1]_vars

\* C4: when the identical request is submitted again after the first one
\* committed (and nothing else was committed), the replay answers with
\* the balances and entry identifiers of the first answer, and the
\* requestId still has two ledger rows.
C4_ReplayRepeatsAnswer ==
  \A p, q \in Procs :
    (/\ outcome[q].detail = "Transfer applied"
     /\ outcome[p].detail = "Idempotent replay"
     /\ req[p] = req[q]
     /\ applied = {q})
    => /\ outcome[p].from = outcome[q].from
       /\ outcome[p].to = outcome[q].to
       /\ outcome[p].debitEntryId = outcome[q].debitEntryId
       /\ outcome[p].creditEntryId = outcome[q].creditEntryId
       /\ Cardinality(EntriesOf(req[p].requestId)) = 2

\* C5: every txId of the ledger has exactly one DEBIT and one CREDIT entry,
\* with equal amounts, on accounts of one currency, the currency of the
\* request that created them.
C5_LedgerPairs ==
  \A rid \in RequestIds :
    EntriesOf(rid) # {} =>
      /\ Cardinality(EntriesOfDir(rid, "DEBIT")) = 1
      /\ Cardinality(EntriesOfDir(rid, "CREDIT")) = 1
      /\ \A d \in EntriesOfDir(rid, "DEBIT"), c \in EntriesOfDir(rid, "CREDIT") :
           /\ d.amount = c.amount
           /\ accounts[d.account_id].currency = accounts[c.account_id].currency
           /\ \A p \in applied :
                req[p].requestId = rid =>
                  req[p].currency = accounts[d.account_id].currency

\* C6: the DEBIT entry and the CREDIT entry of a txId belong to two
\* different accounts; a request with fromAccount = toAccount commits no
\* ledger entries.
C6_TwoDifferentAccounts ==
  /\ \A d, c \in ledger :
       (d.tx_id = c.tx_id /\ d.direction = "DEBIT" /\ c.direction = "CREDIT")
         => d.account_id # c.account_id
  /\ \A p \in applied : SourceOf(req[p]) # DestinationOf(req[p])

\* C7: no state is reachable in which two transfers each hold one
\* account's row lock and wait for the other's.
C7_NoLockCycle ==
  ~ \E p, q \in Procs :
      /\ p # q
      /\ WaitsFor(p) \in Holds(q)
      /\ WaitsFor(q) \in Holds(p)

\* C8: every attempt requests its two row locks in the ascending order of
\* the string form of the account ids: the row it requests first is never
\* the one whose id string is the larger.
C8_GlobalLockOrder ==
  \A p \in Procs :
    (/\ pc[p] = "lock_a"
     /\ AccountOf(ids_sorted(req[p])[1]) # NoRow
     /\ AccountOf(ids_sorted(req[p])[2]) # NoRow)
    => ~StrLess(uuid_str(AccountOf(ids_sorted(req[p])[2])),
                uuid_str(AccountOf(ids_sorted(req[p])[1])))

\* C9: an attempt that answers with an error (status >= 400) has committed
\* no balance and no ledger entry.
C9_ErrorLeavesStoreUnchanged ==
  \A p \in Procs : outcome[p].code >= 400 => p \notin applied

\* C10: once a transfer has committed, a failure of the notification step
\* (the task cannot be dispatched, the consumer answers an error or cannot
\* be reached) does not change the answer: the caller is never answered
\* with the error of the notification step.
C10_NotificationFailureIsSilent ==
  \A p \in Procs :
    outcome[p].detail # "Unexpected error: no running event loop"

\* C11: at the step that decides a transfer between two different, ACTIVE
\* accounts of the requested currency while both locks are held: when the
\* balance of the account named fromAccount is lower than amount the
\* answer is insufficient funds and nothing is written; when it equals
\* amount the transfer is applied and that balance becomes 0.
C11_FundsCheckOnSource ==
  [][\A p \in Procs :
       (/\ pc[p] = "locked"
        /\ pc'[p] # "locked"
        /\ outcome'[p].code # 500
        /\ SourceOf(req[p]) # NoRow
        /\ DestinationOf(req[p]) # NoRow
        /\ SourceOf(req[p]) # DestinationOf(req[p])
        /\ account_is_active(SourceOf(req[p]))
        /\ account_is_active(DestinationOf(req[p]))
        /\ currency_matches(req[p], SourceOf(req[p]), DestinationOf(req[p])))
       => /\ Float(accounts[SourceOf(req[p])].balance) < req[p].amount
               => /\ outcome'[p].detail = "Insufficient funds"
                  /\ accounts' = accounts
                  /\ ledger' = ledger
          /\ Float(accounts[SourceOf(req[p])].balance) = req[p].amount
               => /\ p \in applied'
                  /\ accounts'[SourceOf(req[p])].balance = 0]_vars

\* An attempt has its answer.
Answered(p) == pc[p] \in {"closing", "done"}

\* The answer came from the validations of the handler: it is neither an
\* idempotent replay nor a storage failure.
Validated(p) ==
  Answered(p) /\ outcome[p].detail \notin {"Idempotent replay", "Database error"}

\* Both accounts of r exist and source currency, destination currency and
\* requested currency are not all equal.
CurrencyMismatch(r) ==
  /\ SourceOf(r) # NoRow
  /\ DestinationOf(r) # NoRow
  /\ ~(/\ accounts[SourceOf(r)].currency = accounts[DestinationOf(r)].currency
       /\ accounts[SourceOf(r)].currency = r.currency)

\* C12: an attempt whose source currency, destination currency and
\* requested currency are not all equal never commits, whatever its amount,
\* and the answer of the validations is a validation error (422).
C12_CurrencyMismatchRejected ==
  \A p \in Procs :
    (pc[p] # "idle" /\ CurrencyMismatch(req[p]))
      => /\ p \notin applied
         /\ Validated(p) => outcome[p].code = 422

\* C12's case: the two accounts have different currencies, the request
\* asks for the source's, and the attempt is answered "Currency mismatch".
C12_Witness ==
  \E p \in Procs :
    /\ CurrencyMismatch(req[p])
    /\ accounts[SourceOf(req[p])].currency = req[p].currency
    /\ outcome[p].detail = "Currency mismatch"
    /\ ledger = {}

\* C13: at the step that decides a transfer while both locks are held, a
\* source account that is not ACTIVE is answered with the error naming the
\* origin, a destination that is not ACTIVE (the source being ACTIVE) with
\* the error naming the destination, and nothing is written.
C13_InactiveRoleNamed ==
  [][\A p \in Procs :
       (/\ pc[p] = "locked"
        /\ pc'[p] # "locked"
        /\ outcome'[p].code # 500
        /\ SourceOf(req[p]) # NoRow
        /\ DestinationOf(req[p]) # NoRow)
       => /\ ~account_is_active(SourceOf(req[p]))
               => /\ outcome'[p].detail = "Origin account is not ACTIVE"
                  /\ accounts' = accounts
                  /\ ledger' = ledger
          /\ (account_is_active(SourceOf(req[p]))
              /\ ~account_is_active(DestinationOf(req[p])))
               => /\ outcome'[p].detail = "Destination account is not ACTIVE"
                  /\ accounts' = accounts
                  /\ ledger' = ledger]_vars

\* C14: an attempt that names a source or a destination account that does
\* not exist never commits, and the answer of the validations is not found
\* (404), whichever of the two is missing.
C14_MissingAccountNotFound ==
  \A p \in Procs :
    (pc[p] # "idle"
     /\ (SourceOf(req[p]) = NoRow \/ DestinationOf(req[p]) = NoRow))
      => /\ p \notin applied
         /\ Validated(p) => outcome[p].code = 404

\* C14's case: one attempt with a missing source and one with a missing
\* destination, both answered not found, the store as it started.
C14_Witness ==
  \E p, q \in Procs :
    /\ SourceOf(req[p]) = NoRow /\ outcome[p].code = 404
    /\ DestinationOf(req[q]) = NoRow /\ outcome[q].code = 404
    /\ ledger = {}

\* C15: an authorised attempt with amount <= 0 has its validation error
\* (422) from the moment it is received: it is never at a lock request,
\* holds no row lock and commits nothing.
C15_NonPositiveAmountBeforeLocks ==
  \A p \in Procs :
    (/\ pc[p] # "idle"
     /\ require_service_key(req[p].serviceKey)
     /\ req[p].amount <= 0)
      => /\ pc[p] = "done"
         /\ outcome[p].code = 422
         /\ Holds(p) = {}
         /\ p \notin applied

\* C15's case: a request with amount 0 and one with a negative amount,
\* both answered 422, with nothing written.
C15_Witness ==
  \E p, q \in Procs :
    /\ req[p].amount = 0 /\ outcome[p].code = 422
    /\ req[q].amount < 0 /\ outcome[q].code = 422
    /\ ledger = {}

\* The ids of the entries of one requestId and direction.
EntryIds(rid, d) == {e.id : e \in EntriesOfDir(rid, d)}

\* C16: an authorised request with a positive amount takes the replay path
\* exactly when a DEBIT and a CREDIT entry exist for its requestId; the
\* steps of that path write no account row and no ledger row; the answer
\* is a 200 that carries a DEBIT and a CREDIT entry id of the requestId and
\* the balances read from the accounts named fromAccount and toAccount.
C16_ReplayPath ==
  [][\A p \in Procs :
       /\ (/\ pc[p] = "idle"
           /\ pc'[p] # "idle"
           /\ require_service_key(req'[p].serviceKey)
           /\ req'[p].amount > 0)
          => (pc'[p] = "replay"
                <=> (/\ EntriesOfDir(req'[p].requestId, "DEBIT") # {}
                     /\ EntriesOfDir(req'[p].requestId, "CREDIT") # {}))
       /\ (pc[p] \in {"replay", "replay_to"} /\ pc'[p] # pc[p])
          => (accounts' = accounts /\ ledger' = ledger /\ applied' = applied)
       /\ (pc[p] = "replay" /\ pc'[p] = "replay_to")
          => loc'[p].from_balance = BalanceOrZero(SourceOf(req[p]))
       /\ (pc[p] = "replay_to" /\ pc'[p] # "replay_to")
          => /\ outcome'[p].code = 200
             /\ outcome'[p].debitEntryId \in EntryIds(req[p].requestId, "DEBIT")
             /\ outcome'[p].creditEntryId \in EntryIds(req[p].requestId, "CREDIT")
             /\ outcome'[p].from = loc[p].from_balance
             /\ outcome'[p].to = BalanceOrZero(DestinationOf(req[p]))]_vars

\* C16's case: an attempt has answered with the idempotent replay of a
\* transfer another attempt applied.
C16_Witness ==
  \E p, q \in Procs :
    /\ q \in applied
    /\ p \notin applied
    /\ req[p].requestId = req[q].requestId
    /\ outcome[p].detail = "Idempotent replay"
    /\ outcome[p].debitEntryId # NoEntry
    /\ outcome[p].creditEntryId # NoEntry

\* C17: when every attempt of a requestId was issued after the earlier
\* attempts of that requestId had answered an error, at most one of them
\* applied the balance mutation and the requestId has at most one DEBIT
\* and one CREDIT entry.
C17_RetriesApplyOnce ==
  \A rid \in RequestIds :
    (\A p \in Procs :
       (pc[p] # "idle" /\ req[p].requestId = rid) => sequential[p])
    => /\ Cardinality({p \in applied : req[p].requestId = rid}) <= 1
       /\ Cardinality(EntriesOfDir(rid, "DEBIT")) <= 1
       /\ Cardinality(EntriesOfDir(rid, "CREDIT")) <= 1

\* C17's case: an attempt committed and then answered 500; the retry,
\* issued after that answer, was answered by the replay path.
C17_Witness ==
  \E p, q \in Procs :
    /\ p # q
    /\ p \in applied
    /\ outcome[p].code = 500
    /\ req[q].requestId = req[p].requestId
    /\ sequential[q]
    /\ outcome[q].detail = "Idempotent replay"

\* The notification tasks created by attempt p, run or not.
TasksOf(p) == {t \in tasks \cup {x.task : x \in posts} : t.of = p}

\* C18: with notifications enabled and a URL set, an attempt that has
\* answered created exactly two notifications, for the source and for the
\* destination account, when it committed (and its refreshes succeeded),
\* and none otherwise.
C18_TwoNotificationsPerCommit ==
  \A p \in Procs :
    (Answered(p) /\ env.MS3_NOTIFY_ENABLED /\ env.MS3_NOTIFY_URL # "")
    => IF p \in applied /\ outcome[p].detail # "Database error"
         THEN /\ Cardinality(TasksOf(p)) = 2
              /\ {t.accountId : t \in TasksOf(p)}
                   = {uuid_str(SourceOf(req[p])), uuid_str(DestinationOf(req[p]))}
         ELSE TasksOf(p) = {}

\* Sum of the amounts of a set of ledger entries.
RECURSIVE SumAmounts(_)
SumAmounts(entries) ==
  IF entries = {} THEN 0
  ELSE LET e == CHOOSE x \in entries : TRUE
       IN e.amount + SumAmounts(entries \ {e})

\* C19: the balance of every account created with balance 0 equals the sum
\* of its CREDIT entries minus the sum of its DEBIT entries.
C19_BalanceReconciles ==
  \A u \in CreatedRows :
    accounts[u].balance
      = SumAmounts({e \in ledger : e.account_id = u /\ e.direction = "CREDIT"})
        - SumAmounts({e \in ledger : e.account_id = u /\ e.direction = "DEBIT"})

\* C20: every step keeps every committed ledger entry as it is, and new
\* entries appear only in the step in which an attempt commits its
\* transfer, with that attempt's requestId as txId.
C20_LedgerAppendOnly ==
  [][/\ ledger \subseteq ledger'
     /\ ledger' # ledger
          => \E p \in Procs :
               /\ p \notin applied
               /\ p \in applied'
               /\ \A e \in ledger' \ ledger : e.tx_id = req[p].requestId]_vars

\* C20's case: two transfers have committed, the second on top of the
\* entries of the first.
C20_Witness ==
  /\ Cardinality(applied) = 2
  /\ Cardinality(ledger) = 4

\* C21: once the status of an account is CLOSED it stays CLOSED in every
\* later state, whatever status updates follow.
C21_ClosedIsTerminal ==
  [][\A u \in AccountRows :
       accounts[u].status = "CLOSED" => accounts'[u].status = "CLOSED"]_vars

\* C22: closed_at is assigned only by the step that moves an account that
\* is not CLOSED, and whose closed_at is unset, to CLOSED.
C22_ClosedAtAssignedOnce ==
  [][\A u \in AccountRows :
       accounts'[u].closed_at # accounts[u].closed_at
         => /\ accounts[u].closed_at = NoTime
            /\ accounts[u].status # "CLOSED"
            /\ accounts'[u].status = "CLOSED"]_vars

\* A step in which a transfer attempt commits.
CommitStep == \E p \in Procs : p \notin applied /\ p \in applied'

\* C23: a step changes the balance of an existing account, or the ledger,
\* only when a transfer commits in it; the creation of an account stores a
\* row with balance 0 and leaves every other row and the ledger as they
\* are; a status update leaves every balance and the ledger as they are.
C23_OnlyTransferWritesMoney ==
  [][/\ \A u \in AccountRows :
          accounts'[u].balance # accounts[u].balance => CommitStep
     /\ ledger' # ledger => CommitStep
     /\ \A u \in (DOMAIN accounts') \ AccountRows :
          /\ accounts'[u].balance = 0
          /\ ledger' = ledger
          /\ \A v \in AccountRows : accounts'[v] = accounts[v]
     /\ nStatus' # nStatus
          => /\ ledger' = ledger
             /\ \A u \in AccountRows : accounts'[u].balance = accounts[u].balance]_vars

\* C23's case: an account has been created and later credited by a
\* committed transfer, and status updates have taken place.
C23_Witness ==
  /\ nStatus > 0
  /\ applied # {}
  /\ \E u \in AccountRows \ InitialRows : accounts[u].balance > 0

\* C24: an attempt whose x-service-key is empty or differs from the
\* configured key is answered 403 from the moment it is received: it never
\* reaches the idempotency lookup or a lock request, holds no lock and
\* commits nothing; with no key configured this holds for every attempt.
C24_UnauthorizedBeforeAnything ==
  \A p \in Procs :
    (/\ pc[p] # "idle"
     /\ (req[p].serviceKey = "" \/ req[p].serviceKey # env.SERVICE_KEY_FOR_MS3
         \/ env.SERVICE_KEY_FOR_MS3 = ""))
    => /\ pc[p] = "done"
       /\ outcome[p].code = 403
       /\ Holds(p) = {}
       /\ p \notin applied

\* C24's case: a transfer has committed, and an attempt with the same
\* requestId and another key has been answered 403 instead of a replay.
C24_Witness ==
  \E p, q \in Procs :
    /\ p \in applied
    /\ req[q].requestId = req[p].requestId
    /\ req[q].serviceKey = "another-key"
    /\ outcome[q].code = 403

\* The details of the business-rule rejections and of the store failures.
BusinessRejections ==
  {"Amount must be > 0", "Account not found", "Origin account is not ACTIVE",
   "Destination account is not ACTIVE", "Currency mismatch", "Insufficient funds"}
StoreFailures ==
  {"Database error", "Database error: check_balance_non_negative",
   "Database error: check_amount_positive"}

\* C25: an attempt that ends on a store failure answers 500, and an attempt
\* rejected by a business rule never answers 500.
C25_StorageAndBusinessDisjoint ==
  \A p \in Procs :
    /\ outcome[p].detail \in StoreFailures => outcome[p].code = 500
    /\ outcome[p].detail \in BusinessRejections => outcome[p].code \in {400, 404, 422}

\* C25's case: one attempt ended on a store failure and another on the
\* insufficient-funds rejection.
C25_Witness ==
  \E p, q \in Procs :
    /\ outcome[p].detail = "Database error"
    /\ outcome[q].detail = "Insufficient funds"

\* C26: every stored account belongs to a customer the identity service
\* knows: a creation for a customer it does not know stores nothing.
C26_CreationAsksIdentityService ==
  \A u \in AccountRows : customer_exists(accounts[u].customer_id)

\* The entries of transaction tx in one direction.
EntriesOfTx(tx, dir) == {e \in ledger : e.tx_id = tx /\ e.direction = dir}

\* C27: in every committed state each txId has as many DEBIT entries as
\* CREDIT entries, and every step that lowers the balance of one account
\* by some amount raises the balance of another by the same amount, and
\* the reverse.
C27_NoPartialTransfer ==
  /\ [](\A e \in ledger :
          Cardinality(EntriesOfTx(e.tx_id, "DEBIT"))
            = Cardinality(EntriesOfTx(e.tx_id, "CREDIT")))
  /\ [][\A u \in AccountRows :
          accounts'[u].balance # accounts[u].balance
            => \E v \in AccountRows \ {u} :
                 accounts'[v].balance - accounts[v].balance
                   = accounts[u].balance - accounts'[u].balance]_vars

\* The sum of the balances of a set of accounts.
RECURSIVE TotalBalance(_)
TotalBalance(rows) ==
  IF rows = {} THEN 0
  ELSE LET u == CHOOSE x \in rows : TRUE
       IN accounts[u].balance + TotalBalance(rows \ {u})

C29_TransfersMutuallyExclusive ==
  /\ [](/\ \A u \in AccountRows : Cardinality(lockedBy[u]) <= 1
        /\ \A p \in Procs :
             pc[p] = "locked"
               => {AccountOf(req[p].fromAccount), AccountOf(req[p].toAccount)}
                    \ {NoRow} \subseteq Holds(p))
  /\ [][\A p \in Procs :
          (p \notin applied /\ p \in applied')
            => \A u \in AccountRows :
                 accounts'[u].balance # accounts[u].balance => lockedBy[u] = {p}]_vars

\* C29's case: one attempt holds the locks of both accounts and has not
\* committed yet, while another attempt on the same accounts waits for
\* its first lock.
C29_Witness ==
  \E p, q \in Procs :
    /\ p # q
    /\ pc[p] = "locked"
    /\ Cardinality(Holds(p)) = 2
    /\ pc[q] = "lock_a"
    /\ WaitsFor(q) \in Holds(p)

\* C30: the balances of a success response are the balances that the
\* attempt's own commit wrote.
C30_ResponseShowsOwnCommit ==
  \A p \in Procs :
    outcome[p].detail = "Transfer applied"
      => /\ outcome[p].from = produced[p].from
         /\ outcome[p].to = produced[p].to

\* C31: the step in which a transfer commits changes no field of any
\* account but the balance, and no balance but that of the request's
\* source and destination; every other step of a transfer changes no
\* account at all.
C31_TransferTouchesTwoBalances ==
  [][/\ \A p \in Procs :
          (p \notin applied /\ p \in applied')
            => \A u \in AccountRows :
                 /\ accounts'[u] = [accounts[u] EXCEPT !.balance = accounts'[u].balance]
                 /\ u \notin {SourceOf(req[p]), DestinationOf(req[p])}
                      => accounts'[u] = accounts[u]
     /\ (pc' # pc /\ ~CommitStep) => accounts' = accounts]_vars

\* C31's case: a transfer has committed while a third account, closed by a
\* status update, stands next to its source and destination.
C31_Witness ==
  \E p \in applied :
    \E u \in AccountRows \ {SourceOf(req[p]), DestinationOf(req[p])} :
      accounts[u].closed_at # NoTime

\* C32: an attempt that holds its locks has read, for each of its accounts,
\* the status that is still committed, and the step in which a transfer
\* commits starts and ends with the committed status of its source and of
\* its destination ACTIVE.
C32_CommitsOnlyOnActiveAccounts ==
  /\ [](\A p \in Procs :
          pc[p] = "locked"
            => /\ loc[p].acc_a # NoRow => loc[p].status_a = accounts[loc[p].acc_a].status
               /\ loc[p].acc_b # NoRow => loc[p].status_b = accounts[loc[p].acc_b].status)
  /\ [][\A p \in Procs :
          (p \notin applied /\ p \in applied')
            => \A u \in {SourceOf(req[p]), DestinationOf(req[p])} :
                 accounts[u].status = "ACTIVE" /\ accounts'[u].status = "ACTIVE"]_vars

\* C32's case: a status update has blocked or closed an account of a
\* transfer that committed before it, and another attempt on that account
\* has been refused because the account is not ACTIVE.
C32_Witness ==
  \E p \in applied, q \in Procs \ applied :
    /\ accounts[SourceOf(req[p])].status # "ACTIVE"
    /\ SourceOf(req[p]) \in {SourceOf(req[q]), DestinationOf(req[q])}
    /\ outcome[q].detail \in {"Origin account is not ACTIVE",
                              "Destination account is not ACTIVE"}

\* The detail of the first failing check of request r in the order
\* existence, origin ACTIVE, destination ACTIVE, currencies, funds, with
\* the request's fromAccount as origin and its toAccount as destination;
\* "" when no check fails.
FirstFailingValidation(r) ==
  IF SourceOf(r) = NoRow \/ DestinationOf(r) = NoRow THEN "Account not found"
  ELSE IF accounts[SourceOf(r)].status # "ACTIVE" THEN "Origin account is not ACTIVE"
  ELSE IF accounts[DestinationOf(r)].status # "ACTIVE"
    THEN "Destination account is not ACTIVE"
  ELSE IF ~(accounts[SourceOf(r)].currency = accounts[DestinationOf(r)].currency
            /\ accounts[SourceOf(r)].currency = r.currency) THEN "Currency mismatch"
  ELSE IF Float(accounts[SourceOf(r)].balance) < r.amount THEN "Insufficient funds"
  ELSE ""

\* C33: an attempt rejected when it is received is rejected for its key if
\* the key is bad and otherwise for its amount, also when its requestId is
\* already committed; an attempt rejected by a business rule under the
\* locks is rejected with the outcome of the first failing check in the
\* order existence, origin, destination, currencies, funds.
C33_FirstFailingCheckDecides ==
  [][\A p \in Procs :
       /\ (pc[p] = "idle" /\ pc'[p] # "idle")
            => /\ ~require_service_key(req'[p].serviceKey)
                    => outcome'[p].detail = "Unauthorized service"
               /\ (require_service_key(req'[p].serviceKey) /\ req'[p].amount <= 0)
                    => outcome'[p].detail = "Amount must be > 0"
               /\ (require_service_key(req'[p].serviceKey) /\ req'[p].amount > 0)
                    => outcome'[p].code = 0
       /\ (pc[p] = "locked" /\ outcome'[p].code \in {400, 404, 422})
            => outcome'[p].detail = FirstFailingValidation(req[p])]_vars

\* The current balance of the account a request names, 0.0 when there is
\* no such account.
CurrentBalance(id) ==
  IF AccountOf(id) = NoRow THEN 0 ELSE Float(accounts[AccountOf(id)].balance)

\* Attempt p carries the requestId of a committed transfer with another
\* source, destination, amount or currency.
ReusesRequestId(p, r) ==
  \E q \in applied \ {p} : req[q].requestId = r.requestId /\ req[q] # r

\* C34: an authorized attempt with a positive amount that reuses the
\* requestId of a committed transfer with different fields takes the replay
\* path; on that path it takes no lock and writes nothing, reads the
\* current balances of the accounts its own request names (0.0 for a
\* missing one) and answers 200 with entry identifiers of that requestId,
\* whatever the existence, status, currency and funds checks would say.
C34_ReusedRequestIdIsReplayed ==
  [][\A p \in Procs :
       /\ (/\ pc[p] = "idle"
           /\ pc'[p] # "idle"
           /\ require_service_key(req'[p].serviceKey)
           /\ req'[p].amount > 0
           /\ ReusesRequestId(p, req'[p]))
          => pc'[p] = "replay"
       /\ (pc[p] \in {"replay", "replay_to"} /\ ReusesRequestId(p, req[p]))
          => /\ Holds(p) = {}
             /\ pc'[p] # pc[p]
                  => /\ accounts' = accounts
                     /\ ledger' = ledger
                     /\ lockedBy' = lockedBy
                     /\ applied' = applied
                     /\ pc'[p] \in {"replay_to", "done"}
             /\ (pc[p] = "replay" /\ pc'[p] = "replay_to")
                  => loc'[p].from_balance = CurrentBalance(req[p].fromAccount)
             /\ (pc[p] = "replay_to" /\ pc'[p] = "done")
                  => /\ outcome'[p].code = 200
                     /\ outcome'[p].detail = "Idempotent replay"
                     /\ outcome'[p].debitEntryId \in EntryIds(req[p].requestId, "DEBIT")
                     /\ outcome'[p].creditEntryId \in EntryIds(req[p].requestId, "CREDIT")
                     /\ outcome'[p].from = loc[p].from_balance
                     /\ outcome'[p].to = CurrentBalance(req[p].toAccount)]_vars

\* C34's case: a transfer between a and b has committed, and an attempt
\* with its requestId that names a missing destination has been answered
\* with the replay, the source's balance and 0.0.
C34_Witness ==
  \E q \in applied, p \in Procs \ applied :
    /\ req[p].requestId = req[q].requestId
    /\ req[p].toAccount # req[q].toAccount
    /\ DestinationOf(req[p]) = NoRow
    /\ outcome[p].detail = "Idempotent replay"
    /\ outcome[p].from > 0
    /\ outcome[p].to = 0

\* C35: every attempt that holds the lock of a row or waits for one
\* eventually neither waits nor holds any lock: the lock it waited for was
\* granted or its statement failed, and every lock it took was released.
C35_LocksEventuallyReleased ==
  \A p \in Procs :
    (pc[p] \in {"lock_a", "lock_b"} \/ \E u \in InitialRows : p \in lockedBy[u])
      ~> (/\ pc[p] \notin {"lock_a", "lock_b"}
          /\ \A u \in InitialRows : p \notin lockedBy[u])

\* C35's case: an attempt that was refused after taking a lock still holds
\* it, its session not yet closed, while another attempt waits for that
\* row.
C35_Witness ==
  \E p, q \in Procs :
    /\ p # q
    /\ pc[p] = "closing"
    /\ outcome[p].code \in {400, 404}
    /\ WaitsFor(q) \in Holds(p)

\* The outcome class of the validation step of transfer_funds.
ClassAfterValidation(p) ==
  IF p \in applied' THEN "Transfer applied" ELSE outcome'[p].detail

\* C36: run on the same stored state with the same request, the handler
\* transfer_funds and cruds.apply_transfer_atomic take the same decision
\* on the amount and on the replay, end in the same outcome class, and
\* leave the same accounts and the same ledger.
C36_ImplementationsAgree ==
  [][\A p \in Procs :
       /\ (/\ pc[p] = "idle"
           /\ pc'[p] # "idle"
           /\ require_service_key(req'[p].serviceKey))
          => /\ outcome'[p].detail = "Amount must be > 0"
                  <=> apply_transfer_atomic(req'[p]).class = "Amount must be > 0"
             /\ pc'[p] = "replay"
                  <=> apply_transfer_atomic(req'[p]).class = "Idempotent replay"
       /\ (pc[p] = "locked" /\ pc'[p] # "locked" /\ outcome'[p].code # 500)
          => /\ ClassAfterValidation(p) = apply_transfer_atomic(req[p]).class
             /\ accounts' = apply_transfer_atomic(req[p]).accounts
             /\ ledger' = apply_transfer_atomic(req[p]).ledger]_vars

====
